---- MODULE Spec2Model ----
(***************************************************************************)
(* weather-tui: the modal text-input engine of src/main.rs (struct App,    *)
(* run_app) with its asynchronous autocomplete lookups.                    *)
(*                                                                         *)
(* A String is modelled as the sequence of its chars; every char has a     *)
(* UTF-8 length, so that String::len (bytes) and chars().count() differ    *)
(* on buffers holding a multi-byte char.  An Option is a sequence of at    *)
(* most one element (<<>> is None).                                        *)
(***************************************************************************)
EXTENDS Integers, Sequences, FiniteSets, Bags, TLC

VARIABLES app, chan, tasks, pc, city, now, failed

vars == <<app, chan, tasks, pc, city, now, failed>>

\* failed is a history variable: TRUE exactly in the state a lookup task that
\* ended in Err leaves behind.  The program keeps no trace of such a task.

(***************************************************************************)
(* Bounds of the model                                                     *)
(***************************************************************************)
\* longest buffer that is still edited: a character is typed into a shorter
\* one, and taken out of one up to this length
MaxLen == 3
\* lookups that are running or waiting in the channel at one time
MaxLookups == 1
\* the same in SpecRace
MaxRacing == 2
\* largest reading of the system clock
MaxTime == 1
\* longest buffer a character is typed into in SpecCap, plus one
MaxCapLen == 1
\* longest buffer SpecBuf starts with, and longest it inserts into
MaxBufLen == 3
\* longest buffer typed in SpecEdit
MaxEditLen == 4

(***************************************************************************)
(* Program constants                                                       *)
(***************************************************************************)
MinQueryLen == 3
HistoryCap == 50

(***************************************************************************)
(* Characters and strings                                                  *)
(***************************************************************************)
\* "e_acute" stands for U+00E9, a char of two UTF-8 bytes
TypedChars == {"a", "e_acute"}

Utf8Len(c) == IF c = "e_acute" THEN 2 ELSE 1

is_whitespace(c) == c = " "

RECURSIVE StringLen(_)
StringLen(s) == IF s = <<>> THEN 0 ELSE Utf8Len(Head(s)) + StringLen(Tail(s))

CharsBefore(s, byte_pos) ==
    CHOOSE i \in 0..Len(s) : StringLen(SubSeq(s, 1, i)) = byte_pos

StringRemove(s, byte_pos) ==
    LET i == CharsBefore(s, byte_pos)
    IN  SubSeq(s, 1, i) \o SubSeq(s, i + 2, Len(s))

StringInsert(s, byte_pos, c) ==
    LET i == CharsBefore(s, byte_pos)
    IN  SubSeq(s, 1, i) \o <<c>> \o SubSeq(s, i + 1, Len(s))

(***************************************************************************)
(* The lookup and fetch collaborators                                      *)
(***************************************************************************)
Paris == [name |-> <<"a", "a">>, country |-> <<"a">>]
Perth == [name |-> <<"e_acute", "a">>, country |-> <<"a">>]

ResultLists == {<<>>, <<Paris, Perth>>}

\* the city names the geocoding service has a location for
KnownCities == {<<"a", "a", "a">>, <<"b">>, <<"c">>}

NotFound(c) == <<"'">> \o c \o <<"' not found. Try a different city name.">>

FetchErrors(c) ==
    {NotFound(c), <<"Connection timeout. Check your internet connection.">>}

(***************************************************************************)
(* impl App                                                                *)
(***************************************************************************)
AppNew(history) ==
    [input |-> <<>>, cursor_position |-> 0, state |-> "Input",
     mode |-> "Normal", weather_data |-> <<>>, error_message |-> <<>>,
     search_history |-> history, autocomplete_suggestions |-> <<>>,
     selected_suggestion |-> 0, show_autocomplete |-> FALSE,
     last_autocomplete_query |-> <<>>, focused_pane |-> "Search",
     selected_history_index |-> 0]

char_to_byte_pos(a, char_pos) ==
    IF char_pos < Len(a.input)
    THEN StringLen(SubSeq(a.input, 1, char_pos))
    ELSE StringLen(a.input)

char_count(a) == Len(a.input)

move_cursor_left(a) ==
    IF a.cursor_position > 0
    THEN [a EXCEPT !.cursor_position = @ - 1]
    ELSE a

\* mutant: the cursor moves right without the end-of-buffer test
move_cursor_right_Unclamped(a) == [a EXCEPT !.cursor_position = @ + 1]

move_cursor_right(a) ==
    IF a.cursor_position < char_count(a)
    THEN [a EXCEPT !.cursor_position = @ + 1]
    ELSE a

move_cursor_start(a) == [a EXCEPT !.cursor_position = 0]

move_cursor_end(a) == [a EXCEPT !.cursor_position = char_count(a)]

delete_char(a) ==
    IF a.cursor_position < char_count(a)
    THEN [a EXCEPT !.input =
              StringRemove(a.input, char_to_byte_pos(a, a.cursor_position))]
    ELSE a

backspace(a) ==
    IF a.cursor_position > 0
    THEN LET b == [a EXCEPT !.cursor_position = @ - 1]
         IN  [b EXCEPT !.input =
                  StringRemove(b.input, char_to_byte_pos(b, b.cursor_position))]
    ELSE a

\* mutant: the character is inserted and the cursor stays before it
insert_char_KeepsCursor(a, c) ==
    [a EXCEPT !.input =
                  StringInsert(a.input, char_to_byte_pos(a, a.cursor_position), c)]

insert_char(a, c) ==
    [a EXCEPT !.input =
                  StringInsert(a.input, char_to_byte_pos(a, a.cursor_position), c),
              !.cursor_position = @ + 1]

RECURSIVE SkipForward(_, _, _)
SkipForward(chars, pos, white) ==
    IF pos < Len(chars) /\ is_whitespace(chars[pos + 1]) = white
    THEN SkipForward(chars, pos + 1, white)
    ELSE pos

move_to_next_word(a) ==
    LET p1 == SkipForward(a.input, a.cursor_position, FALSE)
        p2 == SkipForward(a.input, p1, TRUE)
    IN  [a EXCEPT !.cursor_position = p2]

RECURSIVE SkipBackWhite(_, _)
SkipBackWhite(chars, pos) ==
    IF pos > 0 /\ is_whitespace(chars[pos + 1])
    THEN SkipBackWhite(chars, pos - 1)
    ELSE pos

RECURSIVE SkipBackWord(_, _)
SkipBackWord(chars, pos) ==
    IF pos > 0 /\ ~is_whitespace(chars[pos])
    THEN SkipBackWord(chars, pos - 1)
    ELSE pos

\* mutant: the backward motion goes one character back
move_to_prev_word_OneChar(a) ==
    IF a.cursor_position = 0
    THEN a
    ELSE [a EXCEPT !.cursor_position = @ - 1]

move_to_prev_word(a) ==
    IF a.cursor_position = 0
    THEN a
    ELSE LET p0 == a.cursor_position - 1
             p1 == SkipBackWhite(a.input, p0)
             p2 == SkipBackWord(a.input, p1)
         IN  [a EXCEPT !.cursor_position = p2]

\* mutant: the selection moves down without wrapping
select_next_suggestion_NoWrap(a) ==
    IF a.autocomplete_suggestions # <<>>
    THEN [a EXCEPT !.selected_suggestion = @ + 1]
    ELSE a

select_next_suggestion(a) ==
    IF a.autocomplete_suggestions # <<>>
    THEN [a EXCEPT !.selected_suggestion =
              (@ + 1) % Len(a.autocomplete_suggestions)]
    ELSE a

select_prev_suggestion(a) ==
    IF a.autocomplete_suggestions # <<>>
    THEN IF a.selected_suggestion = 0
         THEN [a EXCEPT !.selected_suggestion =
                   Len(a.autocomplete_suggestions) - 1]
         ELSE [a EXCEPT !.selected_suggestion = @ - 1]
    ELSE a

FormatSuggestion(s) == s.name \o <<",", " ">> \o s.country

\* mutant: acceptance takes the first candidate whatever is selected
accept_suggestion_First(a) ==
    IF a.show_autocomplete /\ a.autocomplete_suggestions # <<>>
    THEN LET suggestion == a.autocomplete_suggestions[1]
             b == [a EXCEPT !.input = FormatSuggestion(suggestion)]
         IN  [b EXCEPT !.cursor_position = char_count(b),
                       !.show_autocomplete = FALSE,
                       !.autocomplete_suggestions = <<>>]
    ELSE a

\* mutant: acceptance clears the candidates and leaves them shown
accept_suggestion_KeepVisible(a) ==
    IF a.show_autocomplete /\ a.autocomplete_suggestions # <<>>
    THEN LET suggestion == a.autocomplete_suggestions[a.selected_suggestion + 1]
             b == [a EXCEPT !.input = FormatSuggestion(suggestion)]
         IN  [b EXCEPT !.cursor_position = char_count(b),
                       !.autocomplete_suggestions = <<>>]
    ELSE a

accept_suggestion(a) ==
    IF a.show_autocomplete /\ a.autocomplete_suggestions # <<>>
    THEN LET suggestion == a.autocomplete_suggestions[a.selected_suggestion + 1]
             b == [a EXCEPT !.input = FormatSuggestion(suggestion)]
         IN  [b EXCEPT !.cursor_position = char_count(b),
                       !.show_autocomplete = FALSE,
                       !.autocomplete_suggestions = <<>>]
    ELSE a

select_next_history(a) ==
    IF a.search_history # <<>>
    THEN [a EXCEPT !.selected_history_index = (@ + 1) % Len(a.search_history)]
    ELSE a

\* mutant: the selection stops at the first entry instead of wrapping
select_prev_history_NoWrap(a) ==
    IF a.search_history # <<>> /\ a.selected_history_index > 0
    THEN [a EXCEPT !.selected_history_index = @ - 1]
    ELSE a

select_prev_history(a) ==
    IF a.search_history # <<>>
    THEN IF a.selected_history_index = 0
         THEN [a EXCEPT !.selected_history_index = Len(a.search_history) - 1]
         ELSE [a EXCEPT !.selected_history_index = @ - 1]
    ELSE a

\* mutant: the entry is loaded with the cursor left where it was
load_selected_history_KeepsCursor(a) ==
    IF a.search_history # <<>> /\ a.selected_history_index < Len(a.search_history)
    THEN [a EXCEPT !.input =
                       a.search_history[a.selected_history_index + 1].query,
                   !.focused_pane = "Search",
                   !.mode = "Insert"]
    ELSE a

load_selected_history(a) ==
    IF a.search_history # <<>> /\ a.selected_history_index < Len(a.search_history)
    THEN LET b == [a EXCEPT !.input =
                       a.search_history[a.selected_history_index + 1].query]
         IN  [b EXCEPT !.cursor_position = char_count(b),
                       !.focused_pane = "Search",
                       !.mode = "Insert"]
    ELSE a

\* iter().position(..): index of the first entry with that query, 0 if none
Position(h, query) ==
    IF \E i \in 1..Len(h) : h[i].query = query
    THEN CHOOSE i \in 1..Len(h) :
             /\ h[i].query = query
             /\ \A j \in 1..(i - 1) : h[j].query # query
    ELSE 0

VecRemove(h, i) == SubSeq(h, 1, i - 1) \o SubSeq(h, i + 1, Len(h))

\* mutant: truncation drops the newest entries and keeps the oldest
Truncate_KeepOldest(h, n) ==
    IF Len(h) > n THEN SubSeq(h, Len(h) - n + 1, Len(h)) ELSE h

Truncate(h, n) == IF Len(h) > n THEN SubSeq(h, 1, n) ELSE h

\* mutant: the earlier entry of the query is kept
add_to_history_NoDedup(a, query, timestamp) ==
    LET h2 == <<[query |-> query, timestamp |-> timestamp]>> \o a.search_history
        h3 == IF Len(h2) > HistoryCap THEN Truncate(h2, HistoryCap) ELSE h2
    IN  [a EXCEPT !.search_history = h3]

add_to_history(a, query, timestamp) ==
    LET pos == Position(a.search_history, query)
        h1 == IF pos # 0 THEN VecRemove(a.search_history, pos)
                         ELSE a.search_history
        h2 == <<[query |-> query, timestamp |-> timestamp]>> \o h1
        h3 == IF Len(h2) > HistoryCap THEN Truncate(h2, HistoryCap) ELSE h2
    IN  [a EXCEPT !.search_history = h3]

(***************************************************************************)
(* Key events                                                              *)
(***************************************************************************)
CharKey(c, ctrl) == [code |-> "Char", ch |-> c, ctrl |-> ctrl]

SpecialKey(code) == [code |-> code, ch |-> "", ctrl |-> FALSE]

CommandChars ==
    {"i", "I", "a", "A", "h", "l", "j", "k", "0", "^", "$", "w", "b", "x",
     "d", "q"}

SpecialCodes ==
    {"Tab", "Enter", "Esc", "Backspace", "Delete", "Left", "Right", "Home",
     "End", "Down", "Up", "F1"}

Keys ==
    {CharKey(c, FALSE) : c \in CommandChars \cup TypedChars}
        \cup {CharKey("d", TRUE)}
        \cup {SpecialKey(code) : code \in SpecialCodes}

(***************************************************************************)
(* run_app: the body of the key-event match.  A handler yields the new App,*)
(* the lookup it arms (pending_autocomplete) and how control goes on:      *)
(* "loop" to the end of the iteration, "fetch" into the awaited            *)
(* fetch_weather, "return" out of run_app.                                 *)
(***************************************************************************)
Outcome(a, pending, control) ==
    [app |-> a, pending |-> pending, control |-> control]

\* mutant: Tab always ends on the history pane
TogglePane_ToHistory(a) == [a EXCEPT !.focused_pane = "History"]

TogglePane(a) ==
    [a EXCEPT !.focused_pane = IF @ = "Search" THEN "History" ELSE "Search"]

NormalKey(a, k) ==
    IF k.code = "Char" THEN
        CASE k.ch = "i" -> Outcome([a EXCEPT !.mode = "Insert"], <<>>, "loop")
          [] k.ch = "I" ->
                Outcome(move_cursor_start([a EXCEPT !.mode = "Insert"]), <<>>, "loop")
          [] k.ch = "a" ->
                Outcome(move_cursor_right([a EXCEPT !.mode = "Insert"]), <<>>, "loop")
          [] k.ch = "A" ->
                Outcome(move_cursor_end([a EXCEPT !.mode = "Insert"]), <<>>, "loop")
          [] k.ch = "h" ->
                Outcome(IF a.focused_pane = "Search" THEN move_cursor_left(a) ELSE a,
                        <<>>, "loop")
          [] k.ch = "l" ->
                Outcome(IF a.focused_pane = "Search" THEN move_cursor_right(a) ELSE a,
                        <<>>, "loop")
          [] k.ch = "j" ->
                Outcome(IF a.focused_pane = "History" THEN select_next_history(a) ELSE a,
                        <<>>, "loop")
          [] k.ch = "k" ->
                Outcome(IF a.focused_pane = "History" THEN select_prev_history(a) ELSE a,
                        <<>>, "loop")
          [] k.ch \in {"0", "^"} -> Outcome(move_cursor_start(a), <<>>, "loop")
          [] k.ch = "$" -> Outcome(move_cursor_end(a), <<>>, "loop")
          [] k.ch = "w" -> Outcome(move_to_next_word(a), <<>>, "loop")
          [] k.ch = "b" -> Outcome(move_to_prev_word(a), <<>>, "loop")
          [] k.ch = "x" -> Outcome(delete_char(a), <<>>, "loop")
          [] k.ch = "d" ->
                Outcome(IF k.ctrl
                        THEN [a EXCEPT !.input = <<>>, !.cursor_position = 0]
                        ELSE a,
                        <<>>, "loop")
          [] OTHER -> Outcome(a, <<>>, "loop")
    ELSE
        CASE k.code = "Tab" -> Outcome(TogglePane(a), <<>>, "loop")
          [] k.code = "Enter" ->
                IF a.focused_pane = "History"
                THEN Outcome(load_selected_history(a), <<>>, "loop")
                ELSE IF a.input # <<>>
                     THEN Outcome([a EXCEPT !.state = "Loading"], <<>>, "fetch")
                     ELSE Outcome(a, <<>>, "loop")
          [] k.code = "Esc" -> Outcome(a, <<>>, "return")
          [] OTHER -> Outcome(a, <<>>, "loop")

\* mutant: a lookup is armed and its key is not recorded
Arm_KeepsLast(a) == Outcome(a, <<a.input>>, "loop")

\* the lookup armed after a buffer mutation: Some(input) and the key recorded
Arm(a) ==
    Outcome([a EXCEPT !.last_autocomplete_query = a.input], <<a.input>>, "loop")

InsertKey(a, k) ==
    CASE k.code = "Esc" ->
            Outcome([a EXCEPT !.mode = "Normal",
                              !.cursor_position = IF @ > 0 THEN @ - 1 ELSE @,
                              !.show_autocomplete = FALSE],
                    <<>>, "loop")
      [] k.code = "Char" ->
            LET b == insert_char(a, k.ch)
            IN  IF StringLen(b.input) >= MinQueryLen
                   /\ b.input # b.last_autocomplete_query
                THEN Arm(b)
                ELSE Outcome(b, <<>>, "loop")
      [] k.code = "Backspace" ->
            LET b == backspace(a)
            IN  IF StringLen(b.input) < MinQueryLen
                THEN Outcome([b EXCEPT !.show_autocomplete = FALSE,
                                       !.autocomplete_suggestions = <<>>],
                             <<>>, "loop")
                ELSE IF b.input # b.last_autocomplete_query
                     THEN Arm(b)
                     ELSE Outcome(b, <<>>, "loop")
      [] k.code = "Delete" -> Outcome(delete_char(a), <<>>, "loop")
      [] k.code = "Left" -> Outcome(move_cursor_left(a), <<>>, "loop")
      [] k.code = "Right" -> Outcome(move_cursor_right(a), <<>>, "loop")
      [] k.code = "Home" -> Outcome(move_cursor_start(a), <<>>, "loop")
      [] k.code = "End" -> Outcome(move_cursor_end(a), <<>>, "loop")
      [] k.code = "Down" ->
            Outcome(IF a.show_autocomplete THEN select_next_suggestion(a) ELSE a,
                    <<>>, "loop")
      [] k.code = "Up" ->
            Outcome(IF a.show_autocomplete THEN select_prev_suggestion(a) ELSE a,
                    <<>>, "loop")
      [] k.code = "Tab" ->
            Outcome(IF a.show_autocomplete THEN accept_suggestion(a) ELSE TogglePane(a),
                    <<>>, "loop")
      [] k.code = "Enter" ->
            IF a.show_autocomplete /\ a.autocomplete_suggestions # <<>>
            THEN Outcome(accept_suggestion(a), <<>>, "loop")
            ELSE IF a.input # <<>>
                 THEN Outcome([a EXCEPT !.state = "Loading",
                                        !.show_autocomplete = FALSE],
                              <<>>, "fetch")
                 ELSE Outcome(a, <<>>, "loop")
      [] OTHER -> Outcome(a, <<>>, "loop")

\* mutant: leaving the Error phase keeps the message
ResultKey_KeepsMessage(a, k) ==
    IF k.code = "Esc" \/ (k.code = "Char" /\ k.ch = "q")
    THEN Outcome(a, <<>>, "return")
    ELSE IF k.code = "Char" /\ k.ch = "i"
         THEN Outcome([a EXCEPT !.state = "Input", !.mode = "Insert",
                                !.show_autocomplete = FALSE],
                      <<>>, "loop")
         ELSE Outcome([a EXCEPT !.state = "Input", !.mode = "Normal",
                                !.show_autocomplete = FALSE],
                      <<>>, "loop")

ResultKey(a, k) ==
    IF k.code = "Esc" \/ (k.code = "Char" /\ k.ch = "q")
    THEN Outcome(a, <<>>, "return")
    ELSE IF k.code = "Char" /\ k.ch = "i"
         THEN Outcome([a EXCEPT !.state = "Input", !.mode = "Insert",
                                !.error_message = <<>>,
                                !.show_autocomplete = FALSE],
                      <<>>, "loop")
         ELSE Outcome([a EXCEPT !.state = "Input", !.mode = "Normal",
                                !.error_message = <<>>,
                                !.show_autocomplete = FALSE],
                      <<>>, "loop")

\* mutant: Enter in Normal mode submits a non-empty buffer from either pane
OnKey_EnterSubmitsAnywhere(a, k) ==
    CASE a.state = "Input" /\ a.mode = "Normal" /\ k.code = "Enter"
            /\ a.input # <<>> ->
            Outcome([a EXCEPT !.state = "Loading"], <<>>, "fetch")
      [] a.state = "Input" /\ a.mode = "Normal" -> NormalKey(a, k)
      [] a.state = "Input" /\ a.mode = "Insert" -> InsertKey(a, k)
      [] a.state \in {"Display", "Error"} -> ResultKey(a, k)
      [] OTHER -> Outcome(a, <<>>, "loop")

\* mutant: Esc ends the application in every mode
OnKey_EscReturns(a, k) ==
    CASE k.code = "Esc" -> Outcome(a, <<>>, "return")
      [] a.state = "Input" /\ a.mode = "Normal" -> NormalKey(a, k)
      [] a.state = "Input" /\ a.mode = "Insert" -> InsertKey(a, k)
      [] a.state \in {"Display", "Error"} -> ResultKey(a, k)
      [] OTHER -> Outcome(a, <<>>, "loop")

\* mutant: Enter submits whatever the buffer holds, also nothing
OnKey_SubmitsEmpty(a, k) ==
    CASE a.state = "Input" /\ k.code = "Enter" /\ a.input = <<>> ->
            Outcome([a EXCEPT !.state = "Loading"], <<>>, "fetch")
      [] a.state = "Input" /\ a.mode = "Normal" -> NormalKey(a, k)
      [] a.state = "Input" /\ a.mode = "Insert" -> InsertKey(a, k)
      [] a.state \in {"Display", "Error"} -> ResultKey(a, k)
      [] OTHER -> Outcome(a, <<>>, "loop")

OnKey(a, k) ==
    CASE a.state = "Input" /\ a.mode = "Normal" -> NormalKey(a, k)
      [] a.state = "Input" /\ a.mode = "Insert" -> InsertKey(a, k)
      [] a.state \in {"Display", "Error"} -> ResultKey(a, k)
      [] OTHER -> Outcome(a, <<>>, "loop")

\* the keys that take a character out of the buffer
Deletes(a, k) ==
    \/ a.mode = "Insert" /\ k.code \in {"Backspace", "Delete"}
    \/ a.mode = "Normal" /\ k.code = "Char" /\ k.ch = "x"

\* the index and String::remove panics of the handlers
Panics(a, k) ==
    /\ a.state = "Input"
    /\ \/ /\ a.mode = "Insert"
          /\ k.code = "Backspace"
          /\ a.cursor_position > Len(a.input)
       \/ /\ a.mode = "Insert"
          /\ k.code \in {"Tab", "Enter"}
          /\ a.show_autocomplete
          /\ a.autocomplete_suggestions # <<>>
          /\ a.selected_suggestion >= Len(a.autocomplete_suggestions)
       \/ /\ a.mode = "Normal"
          /\ k.code = "Char"
          /\ k.ch = "b"
          /\ a.cursor_position > Len(a.input)

\* mutant: a result is applied whatever the buffer holds
OnMessage_Unchecked(a, msg) ==
    [a EXCEPT !.autocomplete_suggestions = msg.suggestions,
              !.show_autocomplete = msg.suggestions # <<>>,
              !.selected_suggestion = 0]

\* mutant: a result is added to the candidates already held
OnMessage_Extend(a, msg) ==
    IF a.input = msg.query
    THEN [a EXCEPT !.autocomplete_suggestions = @ \o msg.suggestions,
                   !.show_autocomplete = msg.suggestions # <<>>,
                   !.selected_suggestion = 0]
    ELSE a

\* the body of the AppMessage::AutocompleteResults arm
OnMessage(a, msg) ==
    IF a.input = msg.query
    THEN [a EXCEPT !.autocomplete_suggestions = msg.suggestions,
                   !.show_autocomplete = msg.suggestions # <<>>,
                   !.selected_suggestion = 0]
    ELSE a

(***************************************************************************)
(* run_app: the UI loop and the spawned lookup tasks.                      *)
(*                                                                         *)
(* pc = "loop" is the top of the loop: the try_recv drain and the event    *)
(* poll.  A result sent while the loop polls waits in the channel, so a    *)
(* key event can find the channel non-empty.  pc = "fetch" is the awaited  *)
(* fetch_weather of a submission.  pending_autocomplete is taken at the    *)
(* end of the iteration that armed it, so the spawn belongs to the key     *)
(* event's step.                                                           *)
(***************************************************************************)
Lookups == BagCardinality(tasks) + Len(chan)

\* App::new: load_history().unwrap_or_default(); no history file
Init ==
    /\ app = AppNew(<<>>)
    /\ chan = <<>>
    /\ tasks = EmptyBag
    /\ pc = "loop"
    /\ city = <<>>
    /\ now = 0
    /\ failed = FALSE

\* mutant: results are taken off the channel while a fetch is awaited
DrainMessage_WhileLoading ==
    /\ pc \in {"loop", "fetch"}
    /\ chan # <<>>
    /\ app' = OnMessage(app, Head(chan))
    /\ chan' = Tail(chan)
    /\ failed' = FALSE
    /\ UNCHANGED <<tasks, pc, city, now>>

DrainMessage ==
    /\ pc = "loop"
    /\ chan # <<>>
    /\ app' = OnMessage(app, Head(chan))
    /\ chan' = Tail(chan)
    /\ failed' = FALSE
    /\ UNCHANGED <<tasks, pc, city, now>>

\* the keys the bounds of the model leave out
Bounded(a, k, maxLookups) ==
    /\ (a.state = "Input" /\ a.mode = "Insert" /\ k.code = "Char")
          => (k.ch \in TypedChars /\ ~k.ctrl /\ Len(a.input) < MaxLen)
    /\ (a.state = "Input" /\ Deletes(a, k)) => Len(a.input) <= MaxLen
    /\ (a.state = "Input" /\ a.mode = "Insert"
            /\ k.code \in {"Char", "Backspace"})
          => Lookups < maxLookups

Spawn(pending) ==
    IF pending # <<>> THEN tasks (+) SetToBag({pending[1]}) ELSE tasks

Handle(k) ==
    /\ pc = "loop"
    /\ IF Panics(app, k)
       THEN /\ pc' = "panicked"
            /\ UNCHANGED <<app, tasks, city>>
       ELSE LET r == OnKey(app, k)
            IN  /\ app' = r.app
                /\ pc' = CASE r.control = "fetch" -> "fetch"
                           [] r.control = "return" -> "exited"
                           [] OTHER -> "loop"
                /\ city' = IF r.control = "fetch" THEN app.input ELSE city
                /\ tasks' = IF r.control = "loop" THEN Spawn(r.pending) ELSE tasks
    /\ failed' = FALSE
    /\ UNCHANGED <<chan, now>>

KeyEvent(k) == Bounded(app, k, MaxLookups) /\ Handle(k)

\* mutant: a successful submission leaves the buffer as it was
FetchOk_KeepsBuffer ==
    /\ pc = "fetch"
    /\ city \in KnownCities
    /\ \E t \in now..MaxTime :
          /\ now' = t
          /\ app' = [add_to_history([app EXCEPT !.weather_data = <<"data">>], city, t)
                        EXCEPT !.state = "Display",
                               !.mode = "Normal"]
    /\ pc' = "loop"
    /\ city' = <<>>
    /\ failed' = FALSE
    /\ UNCHANGED <<chan, tasks>>

FetchOk ==
    /\ pc = "fetch"
    /\ city \in KnownCities
    /\ \E t \in now..MaxTime :
          /\ now' = t
          /\ app' = [add_to_history([app EXCEPT !.weather_data = <<"data">>], city, t)
                        EXCEPT !.state = "Display",
                               !.input = <<>>,
                               !.cursor_position = 0,
                               !.mode = "Normal"]
    /\ pc' = "loop"
    /\ city' = <<>>
    /\ failed' = FALSE
    /\ UNCHANGED <<chan, tasks>>

\* mutant: a failed submission clears the buffer like a successful one
FetchErr_ClearsBuffer ==
    /\ pc = "fetch"
    /\ \E e \in FetchErrors(city) :
          app' = [app EXCEPT !.error_message = e, !.state = "Error",
                             !.input = <<>>, !.cursor_position = 0]
    /\ pc' = "loop"
    /\ city' = <<>>
    /\ failed' = FALSE
    /\ UNCHANGED <<chan, tasks, now>>

FetchErr ==
    /\ pc = "fetch"
    /\ \E e \in FetchErrors(city) :
          app' = [app EXCEPT !.error_message = e, !.state = "Error"]
    /\ pc' = "loop"
    /\ city' = <<>>
    /\ failed' = FALSE
    /\ UNCHANGED <<chan, tasks, now>>

\* a spawned task whose fetch_autocomplete returns Ok: it sends the result
TaskOk(query) ==
    /\ pc \in {"loop", "fetch"}
    /\ BagIn(query, tasks)
    /\ \E suggestions \in ResultLists :
          chan' = Append(chan, [query |-> query, suggestions |-> suggestions])
    /\ tasks' = tasks (-) SetToBag({query})
    /\ failed' = FALSE
    /\ UNCHANGED <<app, pc, city, now>>

\* mutant: a failed lookup is reported like a failed submission
TaskErr_Reports(query) ==
    /\ pc \in {"loop", "fetch"}
    /\ BagIn(query, tasks)
    /\ tasks' = tasks (-) SetToBag({query})
    /\ app' = [app EXCEPT !.state = "Error",
                          !.error_message = <<"Network error">>]
    /\ failed' = TRUE
    /\ UNCHANGED <<chan, pc, city, now>>

\* a spawned task whose fetch_autocomplete returns Err: it sends nothing
TaskErr(query) ==
    /\ pc \in {"loop", "fetch"}
    /\ BagIn(query, tasks)
    /\ tasks' = tasks (-) SetToBag({query})
    /\ failed' = TRUE
    /\ UNCHANGED <<app, chan, pc, city, now>>

Next ==
    \/ DrainMessage
    \/ \E k \in Keys : KeyEvent(k)
    \/ FetchOk
    \/ FetchErr
    \/ \E query \in BagToSet(tasks) : TaskOk(query)
    \/ \E query \in BagToSet(tasks) : TaskErr(query)

Spec == Init /\ [][Next]_vars

(***************************************************************************)
(* SpecRace: the same loop driven by the keys that edit the buffer, with   *)
(* more lookups racing.                                                    *)
(***************************************************************************)
RaceKeys ==
    {CharKey("i", FALSE), CharKey("a", FALSE), CharKey("e_acute", FALSE),
     SpecialKey("Backspace"), SpecialKey("Left"), SpecialKey("Down"),
     SpecialKey("Esc")}

RaceKeyEvent(k) == Bounded(app, k, MaxRacing) /\ Handle(k)

NextRace ==
    \/ DrainMessage
    \/ \E k \in RaceKeys : RaceKeyEvent(k)
    \/ \E query \in BagToSet(tasks) : TaskOk(query)
    \/ \E query \in BagToSet(tasks) : TaskErr(query)

SpecRace == Init /\ [][NextRace]_vars

(***************************************************************************)
(* SpecHist: the same loop started with a history file, driven by the keys *)
(* that navigate, load and submit.                                         *)
(***************************************************************************)
LoadedHistory ==
    <<[query |-> <<"b">>, timestamp |-> 0],
      [query |-> <<"c">>, timestamp |-> 0]>>

InitialHistories == {<<>>, LoadedHistory}

HistKeys ==
    {CharKey("i", FALSE), CharKey("a", FALSE), CharKey("j", FALSE),
     CharKey("k", FALSE), SpecialKey("Tab"), SpecialKey("Enter")}

InitHist ==
    /\ \E h \in InitialHistories : app = AppNew(h)
    /\ chan = <<>>
    /\ tasks = EmptyBag
    /\ pc = "loop"
    /\ city = <<>>
    /\ now = 0
    /\ failed = FALSE

HistKeyEvent(k) == Bounded(app, k, MaxLookups) /\ Handle(k)

NextHist ==
    \/ DrainMessage
    \/ \E k \in HistKeys : HistKeyEvent(k)
    \/ FetchOk
    \/ FetchErr
    \/ \E query \in BagToSet(tasks) : TaskOk(query)
    \/ \E query \in BagToSet(tasks) : TaskErr(query)

SpecHist == InitHist /\ [][NextHist]_vars

(***************************************************************************)
(* SpecCap: the same loop started with a history file that holds 49 or 50  *)
(* entries, driven by the keys that type and submit a short query.  No     *)
(* buffer reaches the length of a lookup, so no task is spawned.           *)
(***************************************************************************)
Letters == <<"m", "n", "o", "p", "r", "s", "t", "u", "v", "z">>

\* the query of the i-th entry of the history file: two letters
HistQuery(i) == <<Letters[(i \div 10) + 1], Letters[(i % 10) + 1]>>

FullHistory(n) == [i \in 1..n |-> [query |-> HistQuery(i), timestamp |-> 0]]

CapHistories == {FullHistory(HistoryCap - 1), FullHistory(HistoryCap)}

CapChars == {"b", "c"}

CapKeys ==
    {CharKey("i", FALSE), CharKey("b", FALSE), CharKey("c", FALSE),
     SpecialKey("Tab"), SpecialKey("Enter")}

InitCap ==
    /\ \E h \in CapHistories : app = AppNew(h)
    /\ chan = <<>>
    /\ tasks = EmptyBag
    /\ pc = "loop"
    /\ city = <<>>
    /\ now = 0
    /\ failed = FALSE

CapKeyEvent(k) ==
    /\ (app.state = "Input" /\ app.mode = "Insert" /\ k.code = "Char")
          => (k.ch \in CapChars /\ Len(app.input) < MaxCapLen
                 /\ Lookups < MaxLookups)
    /\ Handle(k)

NextCap ==
    \/ \E k \in CapKeys : CapKeyEvent(k)
    \/ FetchOk
    \/ FetchErr

SpecCap == InitCap /\ [][NextCap]_vars

(***************************************************************************)
(* SpecBuf: the buffer operations of impl App on their own, started with   *)
(* any short buffer over a letter, a blank and a two-byte character, or    *)
(* with the single token "london", and any cursor within the buffer.       *)
(***************************************************************************)
BufChars == {"a", " ", "e_acute"}

London == <<"l", "o", "n", "d", "o", "n">>

RECURSIVE StringsUpTo(_)
StringsUpTo(n) ==
    IF n = 0 THEN {<<>>}
    ELSE LET shorter == StringsUpTo(n - 1)
         IN  shorter \cup {Append(b, c) : b \in shorter, c \in BufChars}

Buffers == StringsUpTo(MaxBufLen) \cup {London}

InitBuf ==
    /\ \E b \in Buffers : \E c \in 0..Len(b) :
          app = [AppNew(<<>>) EXCEPT !.input = b, !.cursor_position = c]
    /\ chan = <<>>
    /\ tasks = EmptyBag
    /\ pc = "loop"
    /\ city = <<>>
    /\ now = 0
    /\ failed = FALSE

NextWord ==
    /\ app' = move_to_next_word(app)
    /\ UNCHANGED <<chan, tasks, pc, city, now, failed>>

PrevWord ==
    /\ app' = move_to_prev_word(app)
    /\ UNCHANGED <<chan, tasks, pc, city, now, failed>>

InsertChar(c) ==
    /\ Len(app.input) <= MaxBufLen
    /\ app' = insert_char(app, c)
    /\ UNCHANGED <<chan, tasks, pc, city, now, failed>>

DeleteBackward ==
    /\ app' = backspace(app)
    /\ UNCHANGED <<chan, tasks, pc, city, now, failed>>

NextBuf ==
    \/ NextWord
    \/ PrevWord
    \/ \E c \in BufChars : InsertChar(c)
    \/ DeleteBackward

SpecBuf == InitBuf /\ [][NextBuf]_vars

(***************************************************************************)
(* SpecEdit: the same loop driven by the Insert-mode keys that change the  *)
(* buffer, one letter being typed, on buffers one character longer than    *)
(* the shortest lookup key.                                                *)
(***************************************************************************)
EditKeys ==
    {CharKey("i", FALSE), CharKey("a", FALSE), SpecialKey("Backspace"),
     SpecialKey("Delete"), SpecialKey("Left")}

EditKeyEvent(k) ==
    /\ (app.state = "Input" /\ app.mode = "Insert" /\ k.code = "Char")
          => (k.ch = "a" /\ Len(app.input) < MaxEditLen)
    /\ (app.state = "Input" /\ app.mode = "Insert"
            /\ k.code \in {"Char", "Backspace"})
          => Lookups < MaxLookups
    /\ Handle(k)

NextEdit ==
    \/ DrainMessage
    \/ \E k \in EditKeys : EditKeyEvent(k)
    \/ \E query \in BagToSet(tasks) : TaskOk(query)
    \/ \E query \in BagToSet(tasks) : TaskErr(query)

SpecEdit == Init /\ [][NextEdit]_vars

(***************************************************************************)
(* SpecLive: the same loop driven by character insertions and Backspace in *)
(* Insert mode, where every spawned lookup task finishes with candidates   *)
(* and the loop keeps draining the channel.                                *)
(***************************************************************************)
LiveKeys ==
    {CharKey("i", FALSE), CharKey("a", FALSE), CharKey("e_acute", FALSE),
     SpecialKey("Backspace")}

LiveKeyEvent(k) == Bounded(app, k, MaxRacing) /\ Handle(k)

\* the lookup service answers every query with candidates
TaskFinds(query) ==
    /\ TaskOk(query)
    /\ chan'[Len(chan')].suggestions # <<>>

TaskEnds == \E query \in BagToSet(tasks) : TaskFinds(query)

NextLive ==
    \/ DrainMessage
    \/ \E k \in LiveKeys : LiveKeyEvent(k)
    \/ TaskEnds

SpecLive ==
    /\ Init
    /\ [][NextLive]_vars
    /\ WF_vars(DrainMessage)
    /\ WF_vars(TaskEnds)

(***************************************************************************)
(* Properties                                                              *)
(***************************************************************************)

\* C1: when the loop drains a result keyed Q, it replaces the candidates,
\* resets the selection to 0 and sets visible = (results non-empty) if and
\* only if the buffer equals Q; otherwise nothing of the App changes.
C1_AppliedIffCurrent ==
    [][(chan # <<>> /\ chan' = Tail(chan)) =>
          LET msg == Head(chan)
          IN  IF app.input = msg.query
              THEN app' = [app EXCEPT
                              !.autocomplete_suggestions = msg.suggestions,
                              !.selected_suggestion = 0,
                              !.show_autocomplete = (msg.suggestions # <<>>)]
              ELSE app' = app]_vars

\* a result was applied and is shown while a stale one waits in the channel
C1_Witness ==
    /\ app.show_autocomplete
    /\ chan # <<>>
    /\ Head(chan).query # app.input

RECURSIVE MergeAll(_, _)
MergeAll(a, msgs) ==
    IF msgs = <<>> THEN a ELSE MergeAll(OnMessage(a, Head(msgs)), Tail(msgs))

Reorder(msgs, p) == [i \in 1..Len(msgs) |-> msgs[p[i]]]

OrderIndependent(a, msgs) ==
    \A p \in Permutations(1..Len(msgs)) :
        MergeAll(a, Reorder(msgs, p)) = MergeAll(a, msgs)

Idempotent(a, msgs) ==
    \A i \in 1..Len(msgs) :
        OnMessage(OnMessage(a, msgs[i]), msgs[i]) = OnMessage(a, msgs[i])

SameKeySameResult(msgs) ==
    \A i, j \in 1..Len(msgs) :
        msgs[i].query = msgs[j].query => msgs[i].suggestions = msgs[j].suggestions

\* C2 (as claimed): the results waiting in the channel leave the same App in
\* every order of arrival, and applying one of them twice is applying it once.
C2_OrderIndependent ==
    chan # <<>> => OrderIndependent(app, chan) /\ Idempotent(app, chan)

\* C2 (amended): applying a result twice is applying it once, and the results
\* waiting in the channel leave the same App in every order of arrival
\* provided those with the same key carry the same candidates.
C2_OrderIndependentPerKey ==
    chan # <<>> =>
        /\ Idempotent(app, chan)
        /\ SameKeySameResult(chan) => OrderIndependent(app, chan)

\* two results with different keys wait, the later one is for the buffer
C2_Witness ==
    /\ Len(chan) = 2
    /\ chan[1].query # chan[2].query
    /\ chan[2].query = app.input
    /\ chan[2].suggestions # <<>>

\* C3: in every reachable state 0 <= cursor <= char_count of the buffer.
C3_CursorInBuffer ==
    app.cursor_position \in 0..Len(app.input)

\* after a submission succeeded, a suggestion was accepted: cursor at its end
C3_Witness ==
    /\ app.search_history # <<>>
    /\ app.input = FormatSuggestion(Paris)
    /\ app.cursor_position = Len(app.input)

\* C4 (as claimed): if the suggestion set is visible then the mode is Insert.
C4_VisibleOnlyInInsert ==
    app.show_autocomplete => app.mode = "Insert"

\* C5: if the suggestion set is visible then its results list is non-empty.
C5_VisibleNonEmpty ==
    app.show_autocomplete => app.autocomplete_suggestions # <<>>

\* the candidates are shown in Insert mode
C5_Witness ==
    /\ app.show_autocomplete
    /\ app.mode = "Insert"
    /\ Len(app.autocomplete_suggestions) = 2

\* C6: where the results list is non-empty the selection is an index of it,
\* no handler panics on an index, and Up and Down in Insert mode with visible
\* suggestions move the selection by one, wrapping around.
C6_SelectionInRange ==
    /\ [](app.autocomplete_suggestions # <<>> =>
             app.selected_suggestion \in 0..(Len(app.autocomplete_suggestions) - 1))
    /\ [](pc # "panicked")
    /\ [][\A code \in {"Down", "Up"} :
             (/\ Handle(SpecialKey(code))
              /\ app.state = "Input"
              /\ app.mode = "Insert"
              /\ app.show_autocomplete
              /\ app.autocomplete_suggestions # <<>>) =>
                 LET n == Len(app.autocomplete_suggestions)
                     d == IF code = "Down" THEN 1 ELSE n - 1
                 IN  app'.selected_suggestion = (app.selected_suggestion + d) % n]_vars

\* the second of two visible candidates is selected
C6_Witness ==
    /\ app.show_autocomplete
    /\ Len(app.autocomplete_suggestions) = 2
    /\ app.selected_suggestion = 1

CtrlD(a, k) == a.mode = "Normal" /\ k = CharKey("d", TRUE)

\* C7 (as claimed): a deletion keystroke (Backspace or Delete in Insert mode,
\* x or Ctrl+d in Normal mode) that leaves the buffer with fewer than 3
\* characters leaves the suggestion set hidden and empty in the same step.
C7_ShrinkHides ==
    [][\A k \in Keys :
          (/\ Handle(k)
           /\ app.state = "Input"
           /\ Deletes(app, k) \/ CtrlD(app, k)
           /\ Len(app'.input) < Len(app.input)
           /\ Len(app'.input) < MinQueryLen) =>
              (~app'.show_autocomplete /\ app'.autocomplete_suggestions = <<>>)]_vars

\* C8 (as claimed): after a character insertion or a Backspace in Insert mode
\* a lookup keyed by the buffer is dispatched if and only if the buffer has at
\* least 3 characters and differs from the key of the last dispatched lookup.
C8_DispatchByChars ==
    [][\A k \in Keys :
          (/\ Handle(k)
           /\ app.state = "Input"
           /\ app.mode = "Insert"
           /\ k.code \in {"Char", "Backspace"}) =>
              /\ (tasks' # tasks) <=>
                    (/\ Len(app'.input) >= MinQueryLen
                     /\ app'.input # app.last_autocomplete_query)
              /\ tasks' # tasks => tasks' = tasks (+) SetToBag({app'.input})]_vars

\* C9: a lookup that fails sends no message and changes nothing of the App;
\* the phase becomes Error only out of a submission's fetch, and an error
\* message is held only in phase Error.
C9_LookupFailureSilent ==
    /\ [][failed' => (app' = app /\ chan' = chan /\ pc' = pc)]_vars
    /\ [][(app'.state = "Error" /\ app.state # "Error") => pc = "fetch"]_vars
    /\ [](app.error_message # <<>> => app.state = "Error")

\* a lookup has just failed while the candidates of an earlier one are shown
C9_Witness ==
    /\ failed
    /\ app.show_autocomplete
    /\ app.state = "Input"

NoDuplicates(h) ==
    \A i, j \in 1..Len(h) : i # j => h[i].query # h[j].query

WithoutQuery(h, query) ==
    LET Other(e) == e.query # query
    IN  SelectSeq(h, Other)

\* C10: from an empty or duplicate-free history no two entries ever share a
\* query; a successful submission puts its query at index 0 with the clock
\* reading of that recording, and behind it the other entries in the order
\* they had.
C10_HistoryDeduplicated ==
    /\ [](NoDuplicates(app.search_history))
    /\ [][(pc = "fetch" /\ app'.state = "Display"
              /\ Len(app.search_history) < HistoryCap) =>
             /\ app'.search_history[1] = [query |-> city, timestamp |-> now']
             /\ Tail(app'.search_history) = WithoutQuery(app.search_history, city)]_vars

\* the older of two loaded entries was recorded again, after a new query
C10_Witness ==
    /\ Len(app.search_history) = 3
    /\ app.search_history[1] = [query |-> <<"c">>, timestamp |-> 1]
    /\ app.search_history[2].query = <<"a", "a", "a">>
    /\ app.search_history[3].query = <<"b">>

\* C11: the history never holds more than 50 entries; recording a query that
\* is not in a history of 50 entries drops the last entry and keeps the other
\* 49 in their order behind the new front entry.
C11_HistoryCapped ==
    /\ [](Len(app.search_history) <= HistoryCap)
    /\ [][(/\ pc = "fetch"
           /\ app'.state = "Display"
           /\ Len(app.search_history) = HistoryCap
           /\ Position(app.search_history, city) = 0) =>
             /\ Len(app'.search_history) = HistoryCap
             /\ app'.search_history[1].query = city
             /\ Tail(app'.search_history) =
                    SubSeq(app.search_history, 1, HistoryCap - 1)]_vars

\* two new queries were recorded into a full history: the two oldest are gone
C11_Witness ==
    /\ Len(app.search_history) = HistoryCap
    /\ app.search_history[1].query = <<"c">>
    /\ app.search_history[2].query = <<"b">>
    /\ app.search_history[3].query = HistQuery(1)
    /\ app.search_history[HistoryCap].query = HistQuery(HistoryCap - 2)

\* C12: a submission hands the whole buffer to the fetch; when the fetch
\* succeeds the phase becomes Display, the buffer is empty, the cursor is 0
\* and the submitted text is the front entry of the history, for a submission
\* from Normal mode as from Insert mode.
C12_SubmitSuccess ==
    /\ [][\A mode \in {"Normal", "Insert"} :
             (/\ pc = "loop"
              /\ pc' = "fetch"
              /\ app.mode = mode) =>
                 /\ app.state = "Input"
                 /\ city' = app.input
                 /\ app'.input = app.input
                 /\ app'.state = "Loading"]_vars
    /\ [](pc = "fetch" => city = app.input)
    /\ [][(pc = "fetch" /\ pc' # "fetch" /\ app'.state # "Error") =>
             /\ app'.state = "Display"
             /\ app'.input = <<>>
             /\ app'.cursor_position = 0
             /\ app'.search_history # <<>>
             /\ app'.search_history[1].query = city
             /\ app'.weather_data # <<>>]_vars

\* a submission from Normal mode succeeded: only that one leaves candidates
\* shown behind the result
C12_Witness ==
    /\ app.state = "Display"
    /\ app.show_autocomplete
    /\ app.input = <<>>
    /\ app.cursor_position = 0
    /\ app.search_history[1].query = <<"a", "a", "a">>

\* the characters of the query stand in the message, in their order
MessageHolds(msg, query) ==
    \E i \in 1..Len(msg) :
        /\ i + Len(query) - 1 <= Len(msg)
        /\ SubSeq(msg, i, i + Len(query) - 1) = query

\* C13: when the fetch of a submission fails the phase becomes Error with the
\* message the fetch returned (the not-found message holds the submitted
\* query); buffer, cursor and history stay as they were at the submission,
\* and no second fetch is started.
C13_SubmitFailure ==
    /\ [][(pc = "loop" /\ pc' = "fetch") =>
             /\ app'.input = app.input
             /\ app'.cursor_position = app.cursor_position
             /\ app'.search_history = app.search_history]_vars
    /\ [][(pc = "fetch" /\ app'.state = "Error") =>
             /\ app.input = city
             /\ app'.error_message \in FetchErrors(city)
             /\ app' = [app EXCEPT !.state = "Error",
                                   !.error_message = app'.error_message]
             /\ pc' = "loop"]_vars
    /\ [](app.state = "Error" =>
             /\ app.error_message \in FetchErrors(app.input)
             /\ app.error_message = NotFound(app.input) =>
                    MessageHolds(app.error_message, app.input))

\* a submission from Insert mode was answered not-found: the buffer is kept
C13_Witness ==
    /\ app.state = "Error"
    /\ app.mode = "Insert"
    /\ app.input = <<"e_acute", "a">>
    /\ app.cursor_position = 2
    /\ app.error_message = NotFound(app.input)

EmptyEnter(a) ==
    /\ a.state = "Input"
    /\ a.input = <<>>
    /\ \/ a.mode = "Normal" /\ a.focused_pane = "Search"
       \/ a.mode = "Insert" /\ ~a.show_autocomplete

\* C14: Enter on an empty buffer, in Normal mode with the search pane focused
\* or in Insert mode with no suggestions shown, changes nothing: the phase
\* stays Input, no fetch starts, no error message is set, the history stays.
C14_EmptyEnterNoOp ==
    /\ [][(Handle(SpecialKey("Enter")) /\ EmptyEnter(app)) =>
             /\ app' = app
             /\ pc' = "loop"
             /\ city' = city
             /\ tasks' = tasks]_vars
    /\ [](EmptyEnter(app) =>
             LET r == OnKey(app, SpecialKey("Enter"))
             IN  /\ r.app.state = "Input"
                 /\ r.control = "loop"
                 /\ r.app.error_message = <<>>
                 /\ r.app.search_history = app.search_history)

\* after a recorded search the buffer is empty again in Insert mode and a
\* lookup has just failed: Enter is the next key
C14_Witness ==
    /\ EmptyEnter(app)
    /\ app.mode = "Insert"
    /\ app.search_history # <<>>
    /\ pc = "loop"
    /\ failed

\* C15: phase Loading is entered only from phase Input, by Enter on a
\* non-empty buffer; the next change of the App is the fetch outcome, Display
\* or Error.  While the phase is Loading no key event is handled and no
\* lookup result is taken off the channel, so one fetch at most is awaited.
C15_LoadingTransient ==
    /\ [](app.state = "Loading" <=> pc = "fetch")
    /\ [][(app'.state = "Loading" /\ app.state # "Loading") =>
             /\ app.state = "Input"
             /\ app.input # <<>>
             /\ Handle(SpecialKey("Enter"))]_vars
    /\ [][app.state = "Loading" =>
             /\ app' # app => (app'.state \in {"Display", "Error"} /\ pc' = "loop")
             /\ \A k \in Keys : ~Handle(k)
             /\ Len(chan') >= Len(chan)
             /\ chan # <<>> => Head(chan') = Head(chan)]_vars

\* a lookup result arrives while the fetch of a submission is awaited
C15_Witness ==
    /\ app.state = "Loading"
    /\ chan # <<>>
    /\ chan[1].query = app.input

Quits(k) == k.code = "Esc" \/ (k.code = "Char" /\ k.ch = "q")

\* C16: in phase Display or Error, Esc and q end the application; i returns
\* to phase Input in Insert mode and every other key returns to phase Input
\* in Normal mode, both with the error message cleared, the suggestions
\* hidden, and the buffer and the cursor as they were.
C16_ResultKeys ==
    /\ [](app.state \in {"Display", "Error"} =>
             \A k \in Keys :
                 LET r == OnKey(app, k)
                 IN  IF Quits(k)
                     THEN r.control = "return" /\ r.app = app
                     ELSE /\ r.control = "loop"
                          /\ r.pending = <<>>
                          /\ r.app.state = "Input"
                          /\ r.app.mode = IF k = CharKey("i", FALSE)
                                          THEN "Insert" ELSE "Normal"
                          /\ r.app.error_message = <<>>
                          /\ ~r.app.show_autocomplete
                          /\ r.app.input = app.input
                          /\ r.app.cursor_position = app.cursor_position)
    /\ [][(/\ app.state \in {"Display", "Error"}
           /\ app'.state # app.state \/ pc' # pc) =>
             \/ pc' = "exited" /\ app' = app
             \/ /\ pc' = "loop"
                /\ tasks' = tasks
                /\ app'.state = "Input"
                /\ app'.error_message = <<>>
                /\ ~app'.show_autocomplete
                /\ app'.input = app.input
                /\ app'.cursor_position = app.cursor_position]_vars

\* back in Insert mode after the submission of "aa" from Normal mode failed:
\* buffer and cursor are kept, no message is held
C16_Witness ==
    /\ app.state = "Input"
    /\ app.mode = "Insert"
    /\ app.input = <<"a", "a">>
    /\ app.cursor_position = 0
    /\ app.error_message = <<>>
    /\ app.weather_data # <<>>
    /\ ~app.show_autocomplete
    /\ app.autocomplete_suggestions # <<>>

\* C17: the application ends on a key only by Esc in phase Input with mode
\* Normal, or by Esc or q in phase Display or Error; no key ends it in Insert
\* mode or in phase Loading, and q does not end it in phase Input.
C17_ExitKeys ==
    /\ [][(pc' = "exited" /\ pc # "exited") =>
             /\ pc = "loop"
             /\ app' = app
             /\ \/ app.state = "Input" /\ app.mode = "Normal"
                \/ app.state \in {"Display", "Error"}
             /\ \A k \in Keys :
                    Handle(k) =>
                        \/ k.code = "Esc"
                        \/ /\ k = CharKey("q", FALSE)
                           /\ app.state \in {"Display", "Error"}]_vars
    /\ [](\A k \in Keys :
             (OnKey(app, k).control = "return") <=>
                 \/ k.code = "Esc" /\ app.state = "Input" /\ app.mode = "Normal"
                 \/ Quits(k) /\ app.state \in {"Display", "Error"})

\* the application was ended in phase Error with the buffer of an Insert-mode
\* submission kept
C17_Witness ==
    /\ pc = "exited"
    /\ app.state = "Error"
    /\ app.mode = "Insert"
    /\ app.input # <<>>

Accepted(a) ==
    LET chosen == a.autocomplete_suggestions[a.selected_suggestion + 1]
    IN  [a EXCEPT !.input = chosen.name \o <<",", " ">> \o chosen.country,
                  !.cursor_position = Len(chosen.name) + 2 + Len(chosen.country),
                  !.autocomplete_suggestions = <<>>,
                  !.show_autocomplete = FALSE]

OtherPane(pane) == IF pane = "Search" THEN "History" ELSE "Search"

\* C18: in Insert mode Tab and Enter accept the selected suggestion when the
\* suggestions are shown, changing neither the focus nor the phase; when none
\* is shown Tab switches the focused pane and Enter submits a non-empty
\* buffer.
C18_TabEnterInsert ==
    /\ [][(app.mode = "Insert" /\ app.show_autocomplete) =>
             /\ pc' # "fetch"
             /\ app'.focused_pane = app.focused_pane]_vars
    /\ [](app.state = "Input" /\ app.mode = "Insert" =>
             LET tab == OnKey(app, SpecialKey("Tab"))
                 enter == OnKey(app, SpecialKey("Enter"))
             IN  IF app.show_autocomplete
                 THEN /\ ~Panics(app, SpecialKey("Tab"))
                      /\ tab = Outcome(Accepted(app), <<>>, "loop")
                      /\ enter = tab
                 ELSE /\ tab = Outcome([app EXCEPT !.focused_pane = OtherPane(@)],
                                       <<>>, "loop")
                      /\ enter = IF app.input # <<>>
                                 THEN Outcome([app EXCEPT !.state = "Loading"],
                                              <<>>, "fetch")
                                 ELSE Outcome(app, <<>>, "loop"))

\* Tab has moved the focus to the history pane in Insert mode, no suggestions
\* being shown for the buffer whose lookup was dispatched
C18_Witness ==
    /\ app.state = "Input"
    /\ app.mode = "Insert"
    /\ app.focused_pane = "History"
    /\ app.input = app.last_autocomplete_query
    /\ app.input # <<>>
    /\ ~app.show_autocomplete

\* C19: accepting a suggestion replaces the whole buffer by "Name, Country"
\* of the candidate at the selected index, puts the cursor at the character
\* count of the new buffer and leaves the suggestions empty and hidden; mode,
\* focus, phase and history stay, and no lookup is dispatched.
C19_AcceptSuggestion ==
    [][(/\ app.state = "Input"
        /\ app.mode = "Insert"
        /\ app.show_autocomplete
        /\ app.autocomplete_suggestions # <<>>) =>
          \A code \in {"Tab", "Enter"} :
              Handle(SpecialKey(code)) =>
                  /\ app' = Accepted(app)
                  /\ app'.cursor_position = Len(app'.input)
                  /\ app'.mode = app.mode
                  /\ app'.focused_pane = app.focused_pane
                  /\ app'.state = app.state
                  /\ app'.search_history = app.search_history
                  /\ app'.last_autocomplete_query = app.last_autocomplete_query
                  /\ tasks' = tasks
                  /\ chan' = chan
                  /\ pc' = "loop"]_vars

\* the second candidate was accepted: the buffer holds its rendering, which
\* no lookup was dispatched for
C19_Witness ==
    /\ app.input = FormatSuggestion(Perth)
    /\ app.cursor_position = 5
    /\ app.mode = "Insert"
    /\ ~app.show_autocomplete
    /\ app.autocomplete_suggestions = <<>>
    /\ app.last_autocomplete_query # app.input
    /\ tasks = EmptyBag

HistoryIndexAfter(a, ch) ==
    LET n == Len(a.search_history)
        i == a.selected_history_index
    IN  IF n = 0 THEN i
        ELSE IF ch = "j" THEN (i + 1) % n ELSE (i + n - 1) % n

\* C20: on a history of n > 0 entries selectNext takes the index i to
\* (i+1) mod n and selectPrev to (i-1) mod n, so that one after the other
\* restores i; on an empty history both change nothing.  Wherever the history
\* is non-empty the index is below its length, also after a recording.
C20_HistoryIndexWraps ==
    /\ [](app.search_history # <<>> =>
             app.selected_history_index \in 0..(Len(app.search_history) - 1))
    /\ [](/\ select_next_history(app) =
                [app EXCEPT !.selected_history_index = HistoryIndexAfter(app, "j")]
          /\ select_prev_history(app) =
                [app EXCEPT !.selected_history_index = HistoryIndexAfter(app, "k")]
          /\ select_prev_history(select_next_history(app)) = app
          /\ select_next_history(select_prev_history(app)) = app)
    /\ [][(/\ app.state = "Input"
           /\ app.mode = "Normal"
           /\ app.focused_pane = "History") =>
             \A ch \in {"j", "k"} :
                 Handle(CharKey(ch, FALSE)) =>
                     app' = [app EXCEPT !.selected_history_index =
                                            HistoryIndexAfter(app, ch)]]_vars
    /\ [][(pc = "fetch" /\ app'.search_history # app.search_history) =>
             /\ app'.selected_history_index = app.selected_history_index
             /\ app'.selected_history_index < Len(app'.search_history)]_vars

\* the last of three entries is selected, the first of them recorded after
\* the history file was loaded
C20_Witness ==
    /\ Len(app.search_history) = 3
    /\ app.search_history[1].query = <<"a", "a", "a">>
    /\ app.selected_history_index = 2
    /\ app.focused_pane = "History"

Loaded(a) ==
    LET entry == a.search_history[a.selected_history_index + 1]
    IN  [a EXCEPT !.input = entry.query,
                  !.cursor_position = Len(entry.query),
                  !.focused_pane = "Search",
                  !.mode = "Insert"]

\* C21: loading the selected entry of a non-empty history sets the buffer to
\* its query, the cursor to the character count of the query, the focus to
\* the search pane and the mode to Insert, the history and its selection
\* staying; on an empty history it changes nothing.
C21_LoadSelected ==
    /\ [](load_selected_history(app) =
             IF app.search_history # <<>> THEN Loaded(app) ELSE app)
    /\ [][(/\ app.state = "Input"
           /\ app.mode = "Normal"
           /\ app.focused_pane = "History") =>
             (Handle(SpecialKey("Enter")) =>
                 /\ app' = IF app.search_history # <<>> THEN Loaded(app) ELSE app
                 /\ app'.search_history = app.search_history
                 /\ app'.selected_history_index = app.selected_history_index
                 /\ pc' = "loop"
                 /\ tasks' = tasks)]_vars

\* the second entry of the loaded history was put into the buffer
C21_Witness ==
    /\ app.input = <<"c">>
    /\ app.cursor_position = 1
    /\ app.mode = "Insert"
    /\ app.focused_pane = "Search"
    /\ app.selected_history_index = 1
    /\ app.search_history[2].query = <<"c">>

InsideWord(a) ==
    /\ a.cursor_position > 0
    /\ a.cursor_position < Len(a.input)
    /\ ~is_whitespace(a.input[a.cursor_position])
    /\ ~is_whitespace(a.input[a.cursor_position + 1])

SingleToken(a) ==
    /\ a.input # <<>>
    /\ \A i \in 1..Len(a.input) : ~is_whitespace(a.input[i])

\* C22: from a cursor strictly inside a word moveToNextWord followed by
\* moveToPrevWord ends at or before the original position; moveToNextWord at
\* the end of the buffer and moveToPrevWord at position 0 leave the cursor;
\* on a buffer of one token, as "london" with cursor 0, moveToNextWord ends
\* at the end of the buffer (6).
C22_WordMotions ==
    /\ [](InsideWord(app) =>
             move_to_prev_word(move_to_next_word(app)).cursor_position
                 <= app.cursor_position)
    /\ [](app.cursor_position = Len(app.input) => move_to_next_word(app) = app)
    /\ [](app.cursor_position = 0 => move_to_prev_word(app) = app)
    /\ [](SingleToken(app) =>
             move_to_next_word(app).cursor_position = Len(app.input))
    /\ [][(app.input = London /\ app.cursor_position = 0 /\ NextWord) =>
             app'.cursor_position = 6]_vars
    /\ [][(InsideWord(app) /\ NextWord) =>
             move_to_prev_word(app').cursor_position <= app.cursor_position]_vars

\* the backward motion has brought the cursor to the start of a buffer of
\* two words that an insertion had made
C22_Witness ==
    /\ app.input = <<"a", "e_acute", " ", "a">>
    /\ app.cursor_position = 0

\* C23: for every buffer, every cursor within it and every character, also a
\* two-byte one, inserting the character and then deleting backward gives
\* back the buffer and the cursor.
C23_InsertThenBackspace ==
    /\ [](\A c \in BufChars : backspace(insert_char(app, c)) = app)
    /\ [][\A c \in BufChars :
             InsertChar(c) =>
                 /\ Len(app'.input) = Len(app.input) + 1
                 /\ app'.input[app'.cursor_position] = c
                 /\ StringLen(app'.input) = StringLen(app.input) + Utf8Len(c)
                 /\ backspace(app') = app]_vars

\* a two-byte character was inserted behind another one: the cursor counts
\* two characters where the byte position is four
C23_Witness ==
    /\ app.input = <<"e_acute", "e_acute", "a", "a">>
    /\ app.cursor_position = 2
    /\ char_to_byte_pos(app, app.cursor_position) = 4

\* C24 (as claimed): a Delete in Insert mode that leaves a buffer of at least
\* 3 characters which differs from the key of the last dispatched lookup
\* dispatches a lookup keyed by the new buffer, as Backspace does.
C24_DeleteDispatches ==
    [][(/\ app.state = "Input"
        /\ app.mode = "Insert"
        /\ Handle(SpecialKey("Delete"))
        /\ app'.input # app.input
        /\ Len(app'.input) >= MinQueryLen
        /\ app'.input # app.last_autocomplete_query) =>
          /\ tasks' = tasks (+) SetToBag({app'.input})
          /\ app'.last_autocomplete_query = app'.input]_vars

\* C25: in Normal mode in phase Input, Enter starts a submission only with
\* the search pane focused and a non-empty buffer; with the history pane
\* focused it loads the selected entry and never enters Loading, and on an
\* empty history it changes nothing, whatever the buffer holds.
C25_NormalEnter ==
    /\ [](app.state = "Input" /\ app.mode = "Normal" =>
             LET r == OnKey(app, SpecialKey("Enter"))
             IN  /\ r.control = "fetch" <=>
                        (app.focused_pane = "Search" /\ app.input # <<>>)
                 /\ r.control = "fetch" => r.app = [app EXCEPT !.state = "Loading"]
                 /\ app.focused_pane = "History" =>
                        /\ r.control = "loop"
                        /\ r.app.state = "Input"
                        /\ r.app = IF app.search_history # <<>>
                                   THEN Loaded(app) ELSE app)
    /\ [][(app.mode = "Normal" /\ pc = "loop" /\ pc' = "fetch") =>
             /\ app.focused_pane = "Search"
             /\ app.input # <<>>
             /\ city' = app.input]_vars

\* Enter has loaded the recorded query from the history pane, over a buffer
\* that held other text
C25_Witness ==
    /\ app.state = "Input"
    /\ app.mode = "Insert"
    /\ app.focused_pane = "Search"
    /\ app.search_history # <<>>
    /\ app.input = app.search_history[app.selected_history_index + 1].query
    /\ app.cursor_position = Len(app.input)
    /\ app.last_autocomplete_query = <<"e_acute", "a">>

Dispatched == BagCardinality(tasks') > BagCardinality(tasks)

\* C26: a lookup is dispatched in the step of the keystroke that armed it,
\* keyed by the buffer that keystroke produced and never by the key of the
\* lookup dispatched before it; the recorded last key is the key of the most
\* recently dispatched lookup; no keystroke takes a running lookup away.
C26_DispatchedKey ==
    /\ [][Dispatched =>
             /\ pc = "loop"
             /\ app.state = "Input"
             /\ app.mode = "Insert"
             /\ app'.input # app.input
             /\ tasks' = tasks (+) SetToBag({app'.input})
             /\ app'.input # app.last_autocomplete_query
             /\ app'.last_autocomplete_query = app'.input]_vars
    /\ [][app'.last_autocomplete_query # app.last_autocomplete_query =>
             /\ Dispatched
             /\ tasks' = tasks (+) SetToBag({app'.last_autocomplete_query})]_vars
    /\ [][\A query \in BagToSet(tasks) :
             CopiesIn(query, tasks') < CopiesIn(query, tasks) =>
                 /\ tasks' = tasks (-) SetToBag({query})
                 /\ app' = app
                 /\ \/ failed' /\ chan' = chan
                    \/ /\ Len(chan') = Len(chan) + 1
                       /\ chan'[Len(chan')].query = query]_vars

\* two lookups run at once: the earlier one was not cancelled, the later one
\* carries the buffer and the recorded key
C26_Witness ==
    /\ BagCardinality(tasks) = 2
    /\ BagIn(<<"a", "a", "a">>, tasks)
    /\ BagIn(<<"a", "a", "e_acute">>, tasks)
    /\ app.input = <<"a", "a", "e_acute">>
    /\ app.last_autocomplete_query = app.input

\* the buffers of at least 3 characters that are typed within the bounds
LongQueries ==
    UNION {[1..n -> TypedChars] : n \in MinQueryLen..MaxLen}

SettledAt(query) ==
    /\ app.state = "Input"
    /\ app.mode = "Insert"
    /\ app.input = query

\* C27 (as claimed): when an insertion or a Backspace in Insert mode has left
\* the buffer at Q of at least 3 characters, then, every lookup succeeding
\* with candidates and the lookup tasks and the loop being fair, the
\* suggestions for Q become visible unless a further key changes the buffer;
\* also when Q was dispatched before and its result was discarded.
C27_SuggestionsAppear ==
    \A query \in LongQueries :
        SettledAt(query) ~>
            \/ SettledAt(query) /\ app.show_autocomplete
            \/ ~SettledAt(query)

\* C28 (as claimed): the suggestions shown are those of a lookup keyed by the
\* buffer as it is now.  They come to be shown only by draining a result
\* whose key is the buffer, so this says that no step which changes the
\* buffer (a character typed, Backspace, Delete, a history entry loaded)
\* leaves the suggestions shown.
C28_VisibleForBuffer ==
    /\ [][(app'.show_autocomplete /\ ~app.show_autocomplete) =>
             /\ chan # <<>>
             /\ chan' = Tail(chan)
             /\ Head(chan).query = app.input
             /\ app'.input = app.input
             /\ app'.autocomplete_suggestions = Head(chan).suggestions]_vars
    /\ [][(app.show_autocomplete /\ app'.input # app.input) =>
             ~app'.show_autocomplete]_vars

====
